---- MODULE Spec2Model ----
(***************************************************************************)
(* Model of the aws-organization Pulumi program.                           *)
(*                                                                         *)
(* The Python program declares resources (one action per constructor or    *)
(* helper function, in program order, tracked by pc); the deployment       *)
(* engine creates a declared resource once every resource it depends on    *)
(* (explicit depends_on, the resources whose outputs it consumes, and its  *)
(* provider) has been created.  Component resources (AwsAccount,           *)
(* AwsWorkload, ...) are bookkeeping parents and impose no ordering.       *)
(*                                                                         *)
(* The organizational units exist when the model starts; each behaviour    *)
(* evaluates one independent part of the program (variable program).       *)
(***************************************************************************)
EXTENDS Naturals, Sequences, FiniteSets, TLC

VARIABLES
    program,    \* which part of the program this evaluation runs
    decl,       \* keyword arguments of the AwsWorkload under evaluation
    kmsConfig,  \* value of the stack configuration key proj:kms_key_id
    users,      \* the user list handed to the account-assignment declaration
    ssoClass,   \* which AwsSsoPermissionSetAccountAssignments class is used
    identityStore, \* the usernames that exist in the identity store
    pc,         \* position of the Python program
    resources,  \* resources registered with the engine so far
    created,    \* urns of the resources whose creation has completed
    sleeping,   \* urns of the Sleep resources whose create() is running
    published,  \* SSM parameters written: records [name, value]
    previous,   \* the parameters written by the previous evaluation
    run,        \* number of the current evaluation of the program
    handles,    \* per container: AwsSsoPermissionSet objects constructed so far
    rejected,   \* urns of the resources whose creation the provider rejected
    account_args, \* keyword arguments of the AwsAccount objects a caller constructed
    args,       \* command line and environment of one invocation of main()
    calls,      \* the stack operations main() has called, in order
    exit_code   \* the status main() exited with, None while it runs

inputs == <<program, kmsConfig, users, ssoClass, identityStore>>

cli == <<args, calls, exit_code>>

aux == <<handles, rejected, account_args, cli>>

vars == <<inputs, decl, pc, resources, created, sleeping, published, previous, run, aux>>

-----------------------------------------------------------------------------
(* Bounds and input domains *)

MaxSuffixes == 2
MaxRuns == 2
MaxUsers == 3
MaxCalls == 2
MaxAccounts == 2
MaxWorkloads == 2

None == "None"

WorkloadNames == {"billing-delegate"}
\* The suffixes offered to the prod, staging and dev tier.
TierSuffixes == <<{"prod"}, {"staging"}, {"dev"}>>
\* A second suffix of each tier, offered after the first place of a list.
SecondSuffixes == <<"prod-b", "staging-b", "dev-b">>
KmsConfigs == {"arn:aws:kms:key", None}

RECURSIVE SeqsUpTo(_, _)
SeqsUpTo(S, n) ==
    IF n = 0 THEN {<<>>}
    ELSE LET shorter == SeqsUpTo(S, n - 1)
         IN shorter \cup {Append(s, x) : s \in {t \in shorter : Len(t) = n - 1}, x \in S}

\* A tier's keyword arguments: the suffix list (isNone when omitted) and the
\* OU (None when omitted).  The OU is omitted with the tier, or with a single
\* suffix, where the second assertion of the tier loop decides.
TierArgs(i) ==
    {[isNone |-> TRUE, suffixes |-> <<>>, ou |-> None]}
    \cup {[isNone |-> FALSE, suffixes |-> s, ou |-> "ou"] :
            s \in {l \in SeqsUpTo(TierSuffixes[i] \cup {SecondSuffixes[i]}, MaxSuffixes) :
                     Len(l) >= 1 => l[1] \in TierSuffixes[i]}}
    \cup {[isNone |-> FALSE, suffixes |-> <<x>>, ou |-> None] : x \in TierSuffixes[i]}

\* The keyword arguments of one AwsWorkload.
Declarations ==
    {[name |-> n, prod |-> p, staging |-> s, dev |-> d] :
        n \in WorkloadNames, p \in TierArgs(1), s \in TierArgs(2), d \in TierArgs(3)}

NoTier == [isNone |-> TRUE, suffixes |-> <<>>, ou |-> None]
NoDecl == [name |-> None, prod |-> NoTier, staging |-> NoTier, dev |-> NoTier]

\* The parts of the program an evaluation runs: the central bootstrapper
\* followed by one AwsWorkload or by the legacy biotasker workload of
\* lib/program.py, the permission sets and account assignments of
\* lib/program.py, or the pulumi_program of program.py.
Programs == {"workload", "biotasker", "sso", "root"}

Usernames == {"a.b", "c.d"}

DefaultAttributes ==
    [exclude_from_manual_artifacts |-> FALSE, exclude_from_cloud_courier |-> FALSE]
UserAttributeValues ==
    {DefaultAttributes,
     [exclude_from_manual_artifacts |-> TRUE, exclude_from_cloud_courier |-> FALSE]}

\* lib/permissions/lib.py: UserInfo.
UserInfos == {[username |-> u, attributes |-> a] : u \in Usernames, a \in UserAttributeValues}

UserLists == SeqsUpTo(UserInfos, MaxUsers)

IdentityStores == {{"a.b", "c.d", "eli.fine"}, {"a.b", "eli.fine"}}

\* The values of --stack, as sequences of characters.
StackNames ==
    { <<"p", "r", "o", "d">>,
      <<"p", "r", "o", "d", "u", "c", "t", "i", "o", "n">>,
      <<"P", "r", "o", "d">>,
      <<"P", "R", "O", "D", "-", "e", "u">>,
      <<"s", "t", "a", "g", "i", "n", "g">>,
      <<"s", "t", "a", "g">>,
      <<"S", "t", "a", "g", "i", "n", "g", "-", "1">>,
      <<"t", "e", "s", "t">>,
      <<"t", "e", "s", "t", "-", "p", "r", "o", "d">>,
      <<"d", "e", "v">>,
      <<"p", "n", "g", "p">>,
      <<"m", "n", "g", "p">>,
      <<"m", "o", "d", "l">>,
      <<"f", "e", "a", "t", "/", "p", "r", "o", "d">>,
      <<"p", "r", "o", "d", "/", "x">> }

\* The values of the environment variable CUSTOM_PULUMI_OPERATION_EXIT_CODE:
\* unset, numeric, or not numeric.
CustomExitCodes == {None, "3", "abc"}

NoArgs == [stack |-> <<>>, apply |-> FALSE, destroy |-> FALSE, custom_exit_code |-> None]

CliInputs ==
    [stack : StackNames, apply : BOOLEAN, destroy : BOOLEAN,
     custom_exit_code : CustomExitCodes]

-----------------------------------------------------------------------------
(* Constants of the program *)

DEFAULT_ORG_ACCESS_ROLE_NAME == "OrganizationAccountAccessRole"
WORKLOAD_INFO_SSM_PARAM_PREFIX == "/org-managed/logical-workloads"
MODEL_VERSION == "0.0.1"
central_infra_workload_name == "central-infra"
central_infra_account_name == central_infra_workload_name \o "-prod"

-----------------------------------------------------------------------------
(* Resource names *)

Urn(type, name) == type \o "::" \o name

AccountUrn(account_name) == Urn("Account", account_name)
SleepUrn(account_name) == Urn("Sleep", "wait-after-account-create-" \o account_name)
ProviderUrn(account_name) == Urn("Provider", account_name)
DeployRoleUrn(account_name) == Urn("Role", "central-infra-repo-deploy-in-" \o account_name)
PreviewRoleUrn(account_name) == Urn("Role", "central-infra-repo-preview-in-" \o account_name)
DescriptorUrn(workload_name) ==
    Urn("Parameter", workload_name \o "-workload-info-for-central-infra")
CentralDeployRoleUrn == Urn("Role", "central-infra-repo-deploy")
CentralPreviewRoleUrn == Urn("Role", "central-infra-repo-preview")
CentralOidcUrn == Urn("OidcProvider", "central-infra-repo-github-oidc-provider")
CentralBucketUrn == Urn("Bucket", "central-infra-state")
EnableServiceAccessUrn == Urn("Command", "enable-aws-service-access")

\* The identifier the provider assigns to an account once it is created:
\* opaque, and distinct for distinct accounts.
AccountId(account_name) == "id-of-" \o account_name

NoWorkload == [name |-> None, prod |-> <<>>, staging |-> <<>>, dev |-> <<>>]

\* A registered resource.  deps: what the engine waits for before creating
\* it.  account: the account a resource belongs to or targets.  workload:
\* for a descriptor parameter, the account lists its value is built from.
\* user, permission_set: the principal and permission set of an account
\* assignment.  trust, managed_policy_arns, policies: of an IAM role, the
\* principal its assume-role policy names, its managed policies and its
\* inline policies.
Resource(urn, kind, deps, account, workload) ==
    [urn |-> urn, kind |-> kind, deps |-> deps, account |-> account,
     workload |-> workload, user |-> None, permission_set |-> None,
     trust |-> None, managed_policy_arns |-> {}, policies |-> {}]

\* iam.Role(..., assume_role_policy_document, managed_policy_arns, policies).
Role(resource, trust, managed_policy_arns, policies) ==
    [resource EXCEPT !.trust = trust, !.managed_policy_arns = managed_policy_arns,
                     !.policies = policies]

AdministratorAccess == "arn:aws:iam::aws:policy/AdministratorAccess"
ReadOnlyAccess == "arn:aws:iam::aws:policy/ReadOnlyAccess"

\* GetPolicyDocumentStatementArgs with effect Allow.
Statement(sid, actions, statement_resources) ==
    [sid |-> sid, effect |-> "Allow", actions |-> actions,
     resources |-> statement_resources]

\* lib/workload.py lines 29-44.
create_pulumi_kms_role_policy_args(kms_key_arn) ==
    [policy_name |-> "InfraKmsDecrypt",
     statements |-> {Statement(None, {"kms:Decrypt", "kms:Encrypt"}, {kms_key_arn})}]

-----------------------------------------------------------------------------
(* lib/shared_lib.py: the published models and their JSON form *)

Q == "\""

JsonString(s) == Q \o s \o Q

RECURSIVE JoinWithComma(_)
JoinWithComma(strs) ==
    IF Len(strs) = 0 THEN ""
    ELSE IF Len(strs) = 1 THEN strs[1]
    ELSE strs[1] \o "," \o JoinWithComma(Tail(strs))

\* Faulty variant of JsonList: the separators of json.dumps' default, ", ".
RECURSIVE JoinWithCommaSpace(_)
JoinWithCommaSpace(strs) ==
    IF Len(strs) = 0 THEN ""
    ELSE IF Len(strs) = 1 THEN strs[1]
    ELSE strs[1] \o ", " \o JoinWithCommaSpace(Tail(strs))

JsonListSpaced(strs) == "[ " \o JoinWithCommaSpace(strs) \o " ]"

JsonList(strs) == "[" \o JoinWithComma(strs) \o "]"

\* AwsAccountInfo(**acc): version takes its default.
AwsAccountInfo(acc) == [version |-> MODEL_VERSION, id |-> acc.id, name |-> acc.name]

AwsLogicalWorkload(name, prod_accounts, staging_accounts, dev_accounts) ==
    [version |-> MODEL_VERSION, name |-> name, prod_accounts |-> prod_accounts,
     staging_accounts |-> staging_accounts, dev_accounts |-> dev_accounts]

\* model_dump_json of an AwsAccountInfo: fields in declaration order.
AccountInfoJson(info) ==
    "{" \o JsonString("version") \o ":" \o JsonString(info.version) \o ","
        \o JsonString("id") \o ":" \o JsonString(info.id) \o ","
        \o JsonString("name") \o ":" \o JsonString(info.name) \o "}"

AccountInfoListJson(infos) ==
    JsonList([i \in 1..Len(infos) |-> AccountInfoJson(infos[i])])

\* Faulty variant of model_dump_json: the document is stamped with the
\* evaluation that produced it.
model_dump_json_stamped(w) ==
    "{" \o JsonString("evaluation") \o ":" \o ToString(run) \o ","
        \o JsonString("name") \o ":" \o JsonString(w.name) \o "}"

\* model_dump_json of an AwsLogicalWorkload: fields in declaration order.
model_dump_json(w) ==
    "{" \o JsonString("version") \o ":" \o JsonString(w.version) \o ","
        \o JsonString("name") \o ":" \o JsonString(w.name) \o ","
        \o JsonString("prod_accounts") \o ":" \o AccountInfoListJson(w.prod_accounts) \o ","
        \o JsonString("staging_accounts") \o ":" \o AccountInfoListJson(w.staging_accounts) \o ","
        \o JsonString("dev_accounts") \o ":" \o AccountInfoListJson(w.dev_accounts) \o "}"

-----------------------------------------------------------------------------
(* lib/account.py: AwsAccount *)

NoDependsOn == [isNone |-> TRUE, urns |-> {}]

\* Lines 54-58: the depends_on handed to organizations.Account.
AccountDependsOn(account_depends_on) ==
    IF ~account_depends_on.isNone THEN {} ELSE {}

\* Faulty variant of SleepDependsOn: the wait also depends on the account's
\* provider, which itself waits for the Sleep.
SleepDependsOnProvider(account_name) ==
    {AccountUrn(account_name), ProviderUrn(account_name)}

\* Line 68: the Sleep waits for the account.
SleepDependsOn(account_name) == {AccountUrn(account_name)}

\* The value of account.id: known once the account has been created.
Unknown == "<unknown>"
AccountIdOutput(account_name) ==
    IF AccountUrn(account_name) \in created THEN AccountId(account_name) ELSE Unknown

\* Line 70: account_info_kwargs, the account's id paired with its name.
account_info_kwargs(account_name) ==
    [id |-> AccountIdOutput(account_name), name |-> account_name]

AwsAccount(account_name, account_depends_on) ==
    { Resource(AccountUrn(account_name), "account",
               AccountDependsOn(account_depends_on), account_name, NoWorkload),
      Resource(SleepUrn(account_name), "sleep",
               SleepDependsOn(account_name), account_name, NoWorkload) }

-----------------------------------------------------------------------------
(* lib/workload.py: AwsWorkload *)

\* Faulty variant of AccountProviderDependsOn: depends_on left out.
AccountProviderDependsOnNothing(account_name) == {}

\* Line 167: depends_on of the account-scoped provider.
AccountProviderDependsOn(account_name) == {SleepUrn(account_name)}

\* Faulty variant of DeployRoleTrust: the preview trust policy is passed.
DeployRoleTrustOfPreview == CentralPreviewRoleUrn

\* Lines 172 and 180: the central role whose arn is the principal of the
\* assume-role policy handed to each role.
DeployRoleTrust == CentralDeployRoleUrn
PreviewRoleTrust == CentralPreviewRoleUrn

\* Lines 158-185.  The provider consumes the account id (its role arn); each
\* role is created through that provider and consumes the trust policy
\* derived from the arn of the matching central role.
create_central_infra_roles(account_name) ==
    { Resource(ProviderUrn(account_name), "provider",
               {AccountUrn(account_name)} \cup AccountProviderDependsOn(account_name),
               account_name, NoWorkload),
      Role(Resource(DeployRoleUrn(account_name), "deployRole",
                    {ProviderUrn(account_name), CentralDeployRoleUrn},
                    account_name, NoWorkload),
           DeployRoleTrust, {AdministratorAccess}, {}),
      Role(Resource(PreviewRoleUrn(account_name), "previewRole",
                    {ProviderUrn(account_name), CentralPreviewRoleUrn},
                    account_name, NoWorkload),
           PreviewRoleTrust, {ReadOnlyAccess},
           {create_pulumi_kms_role_policy_args(kmsConfig)}) }

Tiers(d) == <<d.prod, d.staging, d.dev>>

\* Faulty variant of TierAsserts: a list of several suffixes is accepted.
TierAssertsOuOnly(t) == Len(t.suffixes) >= 1 /\ t.ou # None

\* Lines 78-83: the two assertions of the tier loop.
TierAsserts(t) == Len(t.suffixes) = 1 /\ t.ou # None

\* Faulty variant of FirstFailingTier: the assertions are skipped.
NoFailingTier(d) == 4

\* The first tier whose assertion fails (4 when none does).
FirstFailingTier(d) ==
    LET bad == {i \in 1..3 : ~Tiers(d)[i].isNone /\ ~TierAsserts(Tiers(d)[i])}
    IN IF bad = {} THEN 4 ELSE CHOOSE i \in bad : \A j \in bad : i <= j

\* Line 85: the account name of a suffix.
AccountName(workload_name, account_name_suffix) ==
    workload_name \o "-" \o account_name_suffix

\* Faulty variant of TierAccounts: an omitted tier defaults to one account.
TierAccountsDefaulted(d, i) ==
    LET t == Tiers(d)[i]
    IN IF i >= FirstFailingTier(d) THEN <<>>
       ELSE IF t.isNone
       THEN <<AccountName(d.name, CHOOSE x \in TierSuffixes[i] : TRUE)>>
       ELSE [j \in 1..Len(t.suffixes) |-> AccountName(d.name, t.suffixes[j])]

\* Lines 73-92: the accounts appended to a tier's list, in order.
TierAccounts(d, i) ==
    LET t == Tiers(d)[i]
    IN IF t.isNone \/ i >= FirstFailingTier(d) THEN <<>>
       ELSE [j \in 1..Len(t.suffixes) |-> AccountName(d.name, t.suffixes[j])]

SeqToSet(s) == {s[i] : i \in 1..Len(s)}

\* Lines 187-189: all_accounts.
all_accounts(d) == TierAccounts(d, 1) \o TierAccounts(d, 2) \o TierAccounts(d, 3)

\* Line 154: depends_on of the workload's descriptor parameter.
DescriptorDependsOn(d) == {SleepUrn(a) : a \in SeqToSet(all_accounts(d))}

\* Faulty variant of WorkloadAccountData: the staging and dev lists change
\* places.
WorkloadAccountDataSwapped(d) ==
    [name |-> d.name, prod |-> TierAccounts(d, 1), staging |-> TierAccounts(d, 3),
     dev |-> TierAccounts(d, 2)]

\* Lines 93-120: the account data whose resolution the descriptor waits for.
WorkloadAccountData(d) ==
    [name |-> d.name, prod |-> TierAccounts(d, 1), staging |-> TierAccounts(d, 2),
     dev |-> TierAccounts(d, 3)]

\* Faulty variant of DescriptorParameter: the value is a plain string that
\* consumes no account id.
DescriptorParameterWithoutIds(workload_name, data, depends_on) ==
    Resource(DescriptorUrn(workload_name), "descriptor",
             {ProviderUrn(central_infra_account_name)},
             central_infra_account_name, data)

\* Lines 141-156: the descriptor parameter, written through the central
\* provider with a value that consumes every listed account's id.
DescriptorParameter(workload_name, data, depends_on) ==
    Resource(DescriptorUrn(workload_name), "descriptor",
             {AccountUrn(a) : a \in SeqToSet(data.prod \o data.staging \o data.dev)}
                 \cup depends_on \cup {ProviderUrn(central_infra_account_name)},
             central_infra_account_name, data)

\* Lines 105-120 and 122-139: the resolved dicts, then build_workload.
ResolvedAccounts(names) == [i \in 1..Len(names) |-> account_info_kwargs(names[i])]

AccountInfos(resolved) == [i \in 1..Len(resolved) |-> AwsAccountInfo(resolved[i])]

build_workload(workload_name, resolved_prod, resolved_staging, resolved_dev) ==
    AwsLogicalWorkload(workload_name, AccountInfos(resolved_prod),
                       AccountInfos(resolved_staging), AccountInfos(resolved_dev))

\* Lines 73-156: everything the constructor registers before it returns or
\* raises.
AwsWorkloadResources(d) ==
    UNION {AwsAccount(a, NoDependsOn) \cup create_central_infra_roles(a) :
             a \in SeqToSet(all_accounts(d))}
    \cup (IF FirstFailingTier(d) = 4
          THEN {DescriptorParameter(d.name, WorkloadAccountData(d), DescriptorDependsOn(d))}
          ELSE {})

-----------------------------------------------------------------------------
(* lib/central_infra_workload.py: create_central_infra_workload *)

CentralParameterUrn(name) == Urn("Parameter", name)

CentralResource(urn, kind, deps) ==
    Resource(urn, kind, deps \cup {ProviderUrn(central_infra_account_name)},
             central_infra_account_name, NoWorkload)

\* Faulty variant of CentralProviderDependsOn: depends_on left out.
CentralProviderDependsOnNothing == {}

\* Lines 39 and 51: depends_on of the command and of the central provider.
CentralProviderDependsOn == {SleepUrn(central_infra_account_name)}

\* Lines 33-106: what is registered before proj:kms_key_id is read.
CentralResourcesBeforeConfig ==
    AwsAccount(central_infra_account_name, NoDependsOn)
    \cup { Resource(EnableServiceAccessUrn, "command",
                    {SleepUrn(central_infra_account_name)},
                    central_infra_account_name, NoWorkload),
           Resource(ProviderUrn(central_infra_account_name), "provider",
                    {AccountUrn(central_infra_account_name)} \cup CentralProviderDependsOn,
                    central_infra_account_name, NoWorkload),
           DescriptorParameter(central_infra_workload_name,
                               [name |-> central_infra_workload_name,
                                prod |-> <<central_infra_account_name>>,
                                staging |-> <<>>, dev |-> <<>>],
                               {}),
           CentralResource(CentralParameterUrn("central-infra-management-account-id"),
                           "parameter", {}),
           CentralResource(CentralBucketUrn, "bucket", {}),
           CentralResource(CentralParameterUrn("central-infra-state-bucket-name"),
                           "parameter", {CentralBucketUrn}) }

\* The name the provider gives the state bucket.
BucketName == "central-infra-state-bucket"

\* Lines 127-178: the principals of the two assume-role policies, the OIDC
\* provider for any ref of the central repository or for its main branch.
GithubOidcAny == CentralOidcUrn \o "|repo:*"
GithubOidcMain == CentralOidcUrn \o "|repo:ref:refs/heads/main"

\* Faulty variant of StateBucketWritePolicy: locks are removed anywhere under
\* the bucket.
StateBucketWritePolicyWide(bucket_name) ==
    [policy_name |-> "StateBucketWrite",
     statements |->
        {Statement("CreateMetadataAndLocks", {"s3:PutObject"},
                   {"arn:aws:s3:::" \o bucket_name \o "/${aws:PrincipalAccount}/*"}),
         Statement("RemoveLock", {"s3:DeleteObject", "s3:DeleteObjectVersion"},
                   {"arn:aws:s3:::" \o bucket_name \o "/*"})}]

\* Lines 212-239: the inline policy StateBucketWrite of the preview role.
StateBucketWritePolicy(bucket_name) ==
    [policy_name |-> "StateBucketWrite",
     statements |->
        {Statement("CreateMetadataAndLocks", {"s3:PutObject"},
                   {"arn:aws:s3:::" \o bucket_name \o "/${aws:PrincipalAccount}/*"}),
         Statement("RemoveLock", {"s3:DeleteObject", "s3:DeleteObjectVersion"},
                   {"arn:aws:s3:::" \o bucket_name
                      \o "/${aws:PrincipalAccount}/*/.pulumi/locks/*.json"})}]

\* Lines 107-108: get_config and the isinstance assertion.
KmsConfigValid(config) == config # None

\* Lines 109-243: what is registered after the key arn has been read.
CentralResourcesAfterConfig ==
    { CentralResource(CentralParameterUrn("central-infra-shared-kms-key-arn"),
                      "parameter", {}),
      CentralResource(CentralOidcUrn, "oidc", {}),
      Role(CentralResource(CentralDeployRoleUrn, "centralDeployRole", {CentralOidcUrn}),
           GithubOidcMain, {AdministratorAccess}, {}),
      Role(CentralResource(CentralPreviewRoleUrn, "centralPreviewRole",
                           {CentralOidcUrn, CentralBucketUrn}),
           GithubOidcAny, {ReadOnlyAccess},
           {create_pulumi_kms_role_policy_args(kmsConfig),
            StateBucketWritePolicy(BucketName)}) }

CentralResources(config) ==
    CentralResourcesBeforeConfig
    \cup (IF KmsConfigValid(config) THEN CentralResourcesAfterConfig ELSE {})

-----------------------------------------------------------------------------
(* legacy_biotasker.py: create_legacy_biotasker *)

biotasker_workload_name == "biotasker"
biotasker_account_name == "biotasker-dev"

\* Lines 51-54: the options of the biotasker descriptor parameter.
BiotaskerDescriptorDependsOn == {}

\* Lines 64-66: the options of the biotasker provider.
BiotaskerProviderDependsOn == {}

LegacyBiotaskerResources ==
    AwsAccount(biotasker_account_name, NoDependsOn)
    \cup { DescriptorParameter(biotasker_workload_name,
                               [name |-> biotasker_workload_name, prod |-> <<>>,
                                staging |-> <<>>, dev |-> <<biotasker_account_name>>],
                               BiotaskerDescriptorDependsOn),
           Resource(ProviderUrn(biotasker_account_name), "provider",
                    {AccountUrn(biotasker_account_name)} \cup BiotaskerProviderDependsOn,
                    biotasker_account_name, NoWorkload),
           Role(Resource(DeployRoleUrn(biotasker_workload_name), "deployRole",
                         {ProviderUrn(biotasker_account_name), CentralDeployRoleUrn},
                         biotasker_account_name, NoWorkload),
                CentralDeployRoleUrn, {AdministratorAccess}, {}),
           Role(Resource(PreviewRoleUrn(biotasker_workload_name), "previewRole",
                         {ProviderUrn(biotasker_account_name), CentralPreviewRoleUrn},
                         biotasker_account_name, NoWorkload),
                CentralPreviewRoleUrn, {ReadOnlyAccess},
                {create_pulumi_kms_role_policy_args(kmsConfig)}) }

-----------------------------------------------------------------------------
(* lib/permissions/permissions.py and the classes of program.py *)

management_account_name == "management-account"

PermissionSetUrn(name) == Urn("PermissionSet", name)
AssignmentUrn(resource_name, username) ==
    Urn("AccountAssignment", resource_name \o "-" \o username)

\* AwsSsoPermissionSet.__init__: the permission set and one attachment per
\* managed policy, each consuming the permission set's arn.
AwsSsoPermissionSet(name, managed_policies) ==
    { [Resource(PermissionSetUrn(name), "permissionSet", {}, None, NoWorkload)
          EXCEPT !.permission_set = name] }
    \cup { [Resource(Urn("ManagedPolicyAttachment", name \o "-" \o managed_policies[i]),
                     "managedPolicyAttachment", {PermissionSetUrn(name)}, None,
                     NoWorkload)
              EXCEPT !.permission_set = name] : i \in 1..Len(managed_policies) }

\* Faulty variant of UniqueUserInfos: a username that recurs with different
\* attributes is collapsed to its first occurrence instead of raising.
RECURSIVE UniqueUserInfosKeepFirst(_, _)
UniqueUserInfosKeepFirst(user_list, unique_user_infos) ==
    IF user_list = <<>> THEN [raised |-> FALSE, list |-> unique_user_infos]
    ELSE IF \E i \in 1..Len(unique_user_infos) :
                unique_user_infos[i].username = Head(user_list).username
    THEN UniqueUserInfosKeepFirst(Tail(user_list), unique_user_infos)
    ELSE UniqueUserInfosKeepFirst(Tail(user_list),
                                  Append(unique_user_infos, Head(user_list)))

\* _create_unique_userinfo_list: the dict keeps the first entry of a username;
\* a later entry that differs from it raises ValueError.
RECURSIVE UniqueUserInfos(_, _)
UniqueUserInfos(user_list, unique_user_infos) ==
    IF user_list = <<>> THEN [raised |-> FALSE, list |-> unique_user_infos]
    ELSE LET user_info == Head(user_list)
             seen == {i \in 1..Len(unique_user_infos) :
                        unique_user_infos[i].username = user_info.username}
         IN IF seen = {}
            THEN UniqueUserInfos(Tail(user_list), Append(unique_user_infos, user_info))
            ELSE IF \A i \in seen : unique_user_infos[i] = user_info
            THEN UniqueUserInfos(Tail(user_list), unique_user_infos)
            ELSE [raised |-> TRUE, list |-> <<>>]

\* Faulty variant of create_unique_userinfo_list: the list is returned as given.
userinfo_list_as_given(user_list) == [raised |-> FALSE, list |-> user_list]

create_unique_userinfo_list(user_list) == UniqueUserInfos(user_list, <<>>)

UsernamesOf(user_list) == [i \in 1..Len(user_list) |-> user_list[i].username]

\* program.py line 111: list(set(users)), in any of the orders a set iterates.
OrdersOfSet(S) ==
    {q \in SeqsUpTo(S, Cardinality(S)) : Len(q) = Cardinality(S) /\ SeqToSet(q) = S}

\* Faulty variant of UserExists: an unknown username falls back to a default
\* principal.
UserExistsOrFallback(username) == TRUE

\* lookup_user_id: get_user fails for a username the identity store lacks.
UserExists(username) == username \in identityStore

\* The first position of the loop that fails (Len + 1 when none does): the
\* lookup raises, or the engine rejects a resource name registered before.
FirstFailedLookup(usernames) ==
    LET bad == {i \in 1..Len(usernames) :
                  \/ ~UserExists(usernames[i])
                  \/ \E j \in 1..(i - 1) : usernames[j] = usernames[i]}
    IN IF bad = {} THEN Len(usernames) + 1 ELSE CHOOSE i \in bad : \A j \in bad : i <= j

\* The loop over the unique users: one AccountAssignment per user until a
\* lookup fails.  target_deps: the resources whose output is the target id.
AccountAssignments(permission_set_name, account_name, target_deps, usernames) ==
    { [Resource(AssignmentUrn(permission_set_name \o "-" \o account_name, usernames[i]),
                "assignment", {PermissionSetUrn(permission_set_name)} \cup target_deps,
                account_name, NoWorkload)
          EXCEPT !.user = usernames[i], !.permission_set = permission_set_name] :
        i \in 1..(FirstFailedLookup(usernames) - 1) }

AssignmentsFail(usernames) == FirstFailedLookup(usernames) <= Len(usernames)

\* Lines 142-166: the containers the default assignments use.
LOW_RISK_ADMIN_PERM_SET_CONTAINER ==
    [name |-> "LowRiskAccountAdminAccess",
     managed_policies |-> <<"AdministratorAccess">>,
     inline_policy_callable |-> None]

VIEW_ONLY_PERM_SET_CONTAINER ==
    [name |-> "ViewOnlyAccess",
     managed_policies |-> <<"AWSSupportAccess", "job-function/ViewOnlyAccess",
                            "CloudWatchReadOnlyAccess", "AmazonSSMReadOnlyAccess",
                            "AWSLambda_ReadOnlyAccess", "AmazonEventBridgeReadOnlyAccess",
                            "AmazonEC2ContainerRegistryReadOnly",
                            "AWSBillingReadOnlyAccess",
                            "CostOptimizationHubReadOnlyAccess">>,
     inline_policy_callable |-> "create_read_state_inline_policy"]

MANUAL_SECRETS_ENTRY_PERM_SET_CONTAINER ==
    [name |-> "ManualSecretsEntry",
     managed_policies |-> <<>>,
     inline_policy_callable |-> "create_manual_secrets_entry_inline_policy"]

Containers ==
    {LOW_RISK_ADMIN_PERM_SET_CONTAINER, VIEW_ONLY_PERM_SET_CONTAINER,
     MANUAL_SECRETS_ENTRY_PERM_SET_CONTAINER}

\* The containers a caller works with: those DefaultWorkloadPermissionAssignments
\* reads, or those create_org_admin_permissions reads.
CallerContainers ==
    IF program = "org_admin"
    THEN {VIEW_ONLY_PERM_SET_CONTAINER, MANUAL_SECRETS_ENTRY_PERM_SET_CONTAINER}
    ELSE {LOW_RISK_ADMIN_PERM_SET_CONTAINER, VIEW_ONLY_PERM_SET_CONTAINER}

ContainerNames == {c.name : c \in Containers}

\* Lines 67-74: the inline policy of a permission set, when one is given.
PermissionSetInlinePolicy(name, inline_policy) ==
    IF inline_policy = None THEN {}
    ELSE { [Resource(Urn("PermissionSetInlinePolicy", name \o "-inline-policy"),
                     "inlinePolicy", {PermissionSetUrn(name)}, None, NoWorkload)
              EXCEPT !.permission_set = name] }

\* Lines 92-101: what one call of create_permission_set registers.
ContainerPermissionSet(container) ==
    AwsSsoPermissionSet(container.name, container.managed_policies)
    \cup PermissionSetInlinePolicy(container.name, container.inline_policy_callable)

\* Faulty variant of HasPermissionSet: the property never asserts.
HasPermissionSetAlways(container) == TRUE

\* Lines 103-106: the property permission_set asserts that a handle exists.
HasPermissionSet(container) == handles[container.name] > 0

\* The AwsLogicalWorkload handed to DefaultWorkloadPermissionAssignments: the
\* descriptor of a workload, each account with its identifier.
WorkloadInfo(d) ==
    AwsLogicalWorkload(
        d.name,
        [i \in 1..Len(TierAccounts(d, 1)) |->
            AwsAccountInfo([id |-> AccountId(TierAccounts(d, 1)[i]),
                            name |-> TierAccounts(d, 1)[i]])],
        [i \in 1..Len(TierAccounts(d, 2)) |->
            AwsAccountInfo([id |-> AccountId(TierAccounts(d, 2)[i]),
                            name |-> TierAccounts(d, 2)[i]])],
        [i \in 1..Len(TierAccounts(d, 3)) |->
            AwsAccountInfo([id |-> AccountId(TierAccounts(d, 3)[i]),
                            name |-> TierAccounts(d, 3)[i]])])

\* Faulty variant of DefaultAssignmentPlan: every account is bound to the
\* low-risk admin permission set.
DefaultAssignmentPlanAllAdmin(workload_info) ==
    [i \in 1..Len(workload_info.prod_accounts \o workload_info.staging_accounts
                  \o workload_info.dev_accounts) |->
        [account |-> (workload_info.prod_accounts \o workload_info.staging_accounts
                      \o workload_info.dev_accounts)[i],
         container |-> LOW_RISK_ADMIN_PERM_SET_CONTAINER]]

\* Lines 219-230: the account of each declaration of model_post_init, paired
\* with the container whose permission set it is bound to.
DefaultAssignmentPlan(workload_info) ==
    [i \in 1..Len(workload_info.prod_accounts \o workload_info.staging_accounts) |->
        [account |-> (workload_info.prod_accounts \o workload_info.staging_accounts)[i],
         container |-> VIEW_ONLY_PERM_SET_CONTAINER]]
    \o [i \in 1..Len(workload_info.dev_accounts) |->
        [account |-> workload_info.dev_accounts[i],
         container |-> LOW_RISK_ADMIN_PERM_SET_CONTAINER]]

\* One declaration of the plan raises: its container has no permission set,
\* the user list holds a conflicting duplicate, or a lookup fails.
PlanStepFails(step, user_list) ==
    \/ ~HasPermissionSet(step.container)
    \/ create_unique_userinfo_list(user_list).raised
    \/ AssignmentsFail(UsernamesOf(create_unique_userinfo_list(user_list).list))

\* The first declaration of the plan that raises (Len + 1 when none does).
FirstFailingStep(plan, user_list) ==
    LET bad == {i \in 1..Len(plan) : PlanStepFails(plan[i], user_list)}
    IN IF bad = {} THEN Len(plan) + 1 ELSE CHOOSE i \in bad : \A j \in bad : i <= j

\* What one declaration of the plan registers before it returns or raises.
PlanStepResources(step, user_list) ==
    IF ~HasPermissionSet(step.container) \/ create_unique_userinfo_list(user_list).raised
    THEN {}
    ELSE AccountAssignments(step.container.name, step.account.name, {},
                            UsernamesOf(create_unique_userinfo_list(user_list).list))

\* Lines 213-230: DefaultWorkloadPermissionAssignments.model_post_init.
DefaultWorkloadPermissionAssignments(workload_info, user_list) ==
    LET plan == DefaultAssignmentPlan(workload_info)
        last == FirstFailingStep(plan, user_list)
    IN UNION {PlanStepResources(plan[i], user_list) :
                i \in 1..(IF last > Len(plan) THEN Len(plan) ELSE last)}

\* Lines 233-258: create_org_admin_permissions.  workloads_dict holds the
\* central-infra, identity-center and billing-delegate workloads, each with
\* its prod account.
OrgAdminAccount(workload_name) ==
    AwsAccountInfo([id |-> AccountId(AccountName(workload_name, "prod")),
                    name |-> AccountName(workload_name, "prod")])

OrgAdminPlan ==
    << [account |-> OrgAdminAccount("central-infra"),
        container |-> VIEW_ONLY_PERM_SET_CONTAINER],
       [account |-> OrgAdminAccount("central-infra"),
        container |-> MANUAL_SECRETS_ENTRY_PERM_SET_CONTAINER],
       [account |-> OrgAdminAccount("identity-center"),
        container |-> VIEW_ONLY_PERM_SET_CONTAINER],
       [account |-> OrgAdminAccount("billing-delegate"),
        container |-> VIEW_ONLY_PERM_SET_CONTAINER] >>

\* Lines 236-237 read both handles before the first declaration.
OrgAdminHandlesExist ==
    /\ HasPermissionSet(VIEW_ONLY_PERM_SET_CONTAINER)
    /\ HasPermissionSet(MANUAL_SECRETS_ENTRY_PERM_SET_CONTAINER)

create_org_admin_permissions(user_list) ==
    LET last == FirstFailingStep(OrgAdminPlan, user_list)
    IN IF ~OrgAdminHandlesExist THEN {}
       ELSE UNION {PlanStepResources(OrgAdminPlan[i], user_list) :
                     i \in 1..(IF last > Len(OrgAdminPlan) THEN Len(OrgAdminPlan)
                               ELSE last)}

-----------------------------------------------------------------------------
(* program.py: AwsAccount and pulumi_program *)

\* program.py lines 137-162.
RootAwsAccount(account_name) ==
    { Resource(AccountUrn(account_name), "account", {}, account_name, NoWorkload),
      Resource(SleepUrn(account_name), "sleep", {AccountUrn(account_name)},
               account_name, NoWorkload) }

\* program.py lines 343-358 and 402-417: the trust policies handed to the
\* workload roles are built from the central account's id.
RootTrustPolicySource == {AccountUrn(central_infra_account_name)}

\* program.py lines 352 and 411: the principal of both trust policies, the
\* root of the central account.
RootTrustPrincipal ==
    "arn:aws:iam::" \o AccountId(central_infra_account_name) \o ":root"

\* program.py lines 502-513: the resources whose output is the target id.
RootAssignmentTargetDeps(account_name) == {AccountUrn(account_name)}

\* program.py lines 165-240: what is registered before proj:kms_key_id is read.
RootResourcesBeforeConfig ==
    RootAwsAccount(central_infra_account_name)
    \cup { Resource(ProviderUrn(central_infra_account_name), "provider",
                    {AccountUrn(central_infra_account_name)},
                    central_infra_account_name, NoWorkload),
           CentralResource(CentralBucketUrn, "bucket", {}),
           CentralResource(CentralParameterUrn("central-infra-state-bucket-name"),
                           "parameter", {CentralBucketUrn}) }

\* program.py lines 245-518.
RootResourcesAfterConfig ==
    { CentralResource(CentralParameterUrn("central-infra-shared-kms-key-arn"),
                      "parameter", {}),
      CentralResource(CentralOidcUrn, "oidc", {}),
      Role(CentralResource(CentralDeployRoleUrn, "centralDeployRole", {CentralOidcUrn}),
           GithubOidcMain, {AdministratorAccess}, {}),
      Role(CentralResource(CentralPreviewRoleUrn, "centralPreviewRole", {CentralOidcUrn}),
           GithubOidcAny, {ReadOnlyAccess},
           {create_pulumi_kms_role_policy_args(kmsConfig)}) }
    \cup RootAwsAccount(biotasker_account_name)
    \cup { DescriptorParameter(biotasker_workload_name,
                               [name |-> biotasker_workload_name, prod |-> <<>>,
                                staging |-> <<>>, dev |-> <<biotasker_account_name>>],
                               {}),
           Resource(ProviderUrn(biotasker_account_name), "provider",
                    {AccountUrn(biotasker_account_name)},
                    biotasker_account_name, NoWorkload),
           Role(Resource(DeployRoleUrn(biotasker_workload_name), "deployRole",
                         {ProviderUrn(biotasker_account_name)} \cup RootTrustPolicySource,
                         biotasker_account_name, NoWorkload),
                RootTrustPrincipal, {AdministratorAccess}, {}),
           Role(Resource(PreviewRoleUrn(biotasker_workload_name), "previewRole",
                         {ProviderUrn(biotasker_account_name)} \cup RootTrustPolicySource,
                         biotasker_account_name, NoWorkload),
                RootTrustPrincipal, {ReadOnlyAccess},
                {create_pulumi_kms_role_policy_args(kmsConfig)}) }
    \cup AwsSsoPermissionSet("LowRiskAccountAdminAccess", <<"AdministratorAccess">>)
    \cup AccountAssignments("LowRiskAccountAdminAccess", central_infra_account_name,
                            RootAssignmentTargetDeps(central_infra_account_name),
                            <<"eli.fine">>)
    \cup AccountAssignments("LowRiskAccountAdminAccess", biotasker_account_name,
                            RootAssignmentTargetDeps(biotasker_account_name),
                            <<"eli.fine">>)
    \cup { Resource(EnableServiceAccessUrn, "command", {}, None, NoWorkload) }

RootResources(config) ==
    RootResourcesBeforeConfig
    \cup (IF KmsConfigValid(config) THEN RootResourcesAfterConfig ELSE {})

-----------------------------------------------------------------------------
(* The Python program: lib/program.py and workloads.py *)

\* The state in which an evaluation of one of the given program parts starts.
StartDeclared(parts, declarations) ==
    /\ program \in parts
    /\ kmsConfig \in (IF program \in {"sso", "permissions", "org_admin"} THEN {None}
                      ELSE KmsConfigs)
    /\ ssoClass \in (IF program = "sso" THEN {"lib", "root"}
                     ELSE IF program \in {"permissions", "org_admin"} THEN {"lib"}
                     ELSE {"root"})
    /\ users \in (IF program = "sso"
                  THEN {l \in UserLists :
                          ssoClass = "root" =>
                              \A i \in 1..Len(l) : l[i].attributes = DefaultAttributes}
                  ELSE IF program \in {"permissions", "org_admin"}
                  THEN {l \in UserLists :
                          \A i \in 1..Len(l) : l[i].attributes = DefaultAttributes}
                  ELSE {<<>>})
    /\ identityStore \in (IF program \in {"sso", "permissions", "org_admin"}
                          THEN IdentityStores
                          ELSE {{"a.b", "c.d", "eli.fine"}})
    /\ decl \in (IF program = "workload" THEN declarations ELSE {NoDecl})
    /\ pc = "start"
    /\ resources = {}
    /\ created = {}
    /\ sleeping = {}
    /\ published = {}
    /\ previous = {}
    /\ run = 1
    /\ handles = [c \in ContainerNames |-> 0]
    /\ rejected = {}
    /\ account_args = {}
    /\ args \in (IF program = "main" THEN CliInputs ELSE {NoArgs})
    /\ calls = <<>>
    /\ exit_code = None

\* The arguments of AwsWorkload are chosen when it is constructed.
Start(parts) == StartDeclared(parts, {NoDecl})

Init == Start(Programs)

\* lib/program.py line 53.
CreateCentralInfraWorkload ==
    /\ pc = "start"
    /\ program \in {"workload", "biotasker", "delegation"}
    /\ resources' = resources \cup CentralResources(kmsConfig)
    /\ pc' = IF KmsConfigValid(kmsConfig) THEN "central_declared" ELSE "failed"
    /\ UNCHANGED <<inputs, decl, created, sleeping, published, previous, run, aux>>

\* lib/program.py lines 54-59 and 74-79, workloads.py lines 32-41: one
\* AwsWorkload is constructed.
ConstructAwsWorkload ==
    /\ pc = "central_declared"
    /\ program = "workload"
    /\ \E d \in Declarations :
        /\ decl # NoDecl => d = decl
        /\ decl' = d
        /\ resources' = resources \cup AwsWorkloadResources(d)
        /\ pc' = IF FirstFailingTier(d) = 4 THEN "done" ELSE "failed"
    /\ UNCHANGED <<inputs, created, sleeping, published, previous, run, aux>>

\* workloads.py line 31.
CreateLegacyBiotasker ==
    /\ pc = "central_declared"
    /\ program = "biotasker"
    /\ resources' = resources \cup LegacyBiotaskerResources
    /\ pc' = "done"
    /\ UNCHANGED <<inputs, decl, created, sleeping, published, previous, run, aux>>

\* program.py lines 165-519: pulumi_program.
RootPulumiProgram ==
    /\ pc = "start"
    /\ program = "root"
    /\ resources' = resources \cup RootResources(kmsConfig)
    /\ pc' = IF KmsConfigValid(kmsConfig) THEN "done" ELSE "failed"
    /\ UNCHANGED <<inputs, decl, created, sleeping, published, previous, run, aux>>

\* lib/program.py lines 34-43 (program.py lines 499-501): the next
\* AwsSsoPermissionSet is constructed.
ConstructPermissionSet ==
    /\ program = "sso"
    /\ \/ /\ pc = "start"
          /\ resources' = resources \cup
                AwsSsoPermissionSet("ManagementAccountAdminAccess", <<"AdministratorAccess">>)
          /\ pc' = "admin_set_declared"
       \/ /\ pc = "admin_set_declared"
          /\ resources' = resources \cup
                AwsSsoPermissionSet("ManagementAccountViewAccess", <<"ReadOnlyAccess">>)
          /\ pc' = "sets_declared"
    /\ UNCHANGED <<inputs, decl, created, sleeping, published, previous, run, aux>>

\* AwsSsoPermissionSetAccountAssignments.__init__ of
\* lib/permissions/permissions.py, targeting the management account.
ConstructAssignments(permission_set_name) ==
    LET unique == create_unique_userinfo_list(users)
        usernames == UsernamesOf(unique.list)
    IN /\ ssoClass = "lib"
       /\ resources' = resources \cup
             AccountAssignments(permission_set_name, management_account_name, {}, usernames)
       /\ pc' = IF unique.raised \/ AssignmentsFail(usernames) THEN "failed"
                ELSE IF pc = "sets_declared" THEN "admin_assigned" ELSE "done"

\* AwsSsoPermissionSetAccountAssignments.__init__ of program.py.
RootConstructAssignments(permission_set_name) ==
    /\ ssoClass = "root"
    /\ \E usernames \in OrdersOfSet(SeqToSet(UsernamesOf(users))) :
          /\ resources' = resources \cup
                AccountAssignments(permission_set_name, management_account_name, {},
                                   usernames)
          /\ pc' = IF AssignmentsFail(usernames) THEN "failed"
                   ELSE IF pc = "sets_declared" THEN "admin_assigned" ELSE "done"

\* lib/program.py lines 46-51: the loop over the two permission sets.
DeclareAccountAssignments ==
    /\ program = "sso"
    /\ pc \in {"sets_declared", "admin_assigned"}
    /\ LET permission_set_name ==
             IF pc = "sets_declared" THEN "ManagementAccountAdminAccess"
             ELSE "ManagementAccountViewAccess"
       IN \/ ConstructAssignments(permission_set_name)
          \/ RootConstructAssignments(permission_set_name)
    /\ UNCHANGED <<inputs, decl, created, sleeping, published, previous, run, aux>>

\* A caller of the library calls create_permission_set on a container
\* (lines 92-101): a new AwsSsoPermissionSet is constructed and kept.
CreatePermissionSet ==
    /\ program \in {"permissions", "org_admin"}
    /\ pc = "start"
    /\ \E container \in CallerContainers :
          /\ handles[container.name] < MaxCalls
          /\ handles' = [handles EXCEPT ![container.name] = @ + 1]
          /\ resources' = resources \cup ContainerPermissionSet(container)
    /\ UNCHANGED <<inputs, decl, pc, created, sleeping, published, previous, run,
                   rejected, account_args, cli>>

\* The caller runs create_org_admin_permissions (lines 233-258).
CreateOrgAdminPermissions ==
    /\ program = "org_admin"
    /\ pc = "start"
    /\ resources' = resources \cup create_org_admin_permissions(users)
    /\ pc' = IF OrgAdminHandlesExist
                /\ FirstFailingStep(OrgAdminPlan, users) > Len(OrgAdminPlan)
             THEN "done" ELSE "failed"
    /\ UNCHANGED <<inputs, decl, created, sleeping, published, previous, run, aux>>

\* The caller constructs DefaultWorkloadPermissionAssignments for the
\* descriptor of a workload (lines 213-230).
ConstructDefaultAssignments ==
    /\ program = "permissions"
    /\ pc = "start"
    /\ \E d \in {x \in Declarations : FirstFailingTier(x) = 4} :
          LET plan == DefaultAssignmentPlan(WorkloadInfo(d))
          IN /\ decl' = d
             /\ resources' = resources \cup
                   DefaultWorkloadPermissionAssignments(WorkloadInfo(d), users)
             /\ pc' = IF FirstFailingStep(plan, users) > Len(plan) THEN "done"
                      ELSE "failed"
    /\ UNCHANGED <<inputs, created, sleeping, published, previous, run, aux>>

-----------------------------------------------------------------------------
(* The deployment engine *)

\* A resource the engine has still to act on.  A resource whose creation the
\* provider rejected is not tried again.
Pending(r) == r.urn \notin created /\ r.urn \notin sleeping /\ r.urn \notin rejected

\* Faulty variant of Ready: a rejected dependency counts as satisfied.
ReadyDespiteRejection(r) == Pending(r) /\ r.deps \subseteq created \cup rejected

Ready(r) == Pending(r) /\ r.deps \subseteq created

ParameterName(workload_name) == WORKLOAD_INFO_SSM_PARAM_PREFIX \o "/" \o workload_name

\* The value of a descriptor parameter: every listed id has resolved, the
\* resolved dicts are gathered in list order and handed to build_workload.
DescriptorValue(data) ==
    build_workload(data.name, ResolvedAccounts(data.prod),
                   ResolvedAccounts(data.staging), ResolvedAccounts(data.dev))

Publish(r) ==
    [name |-> ParameterName(r.workload.name),
     workload |-> DescriptorValue(r.workload),
     value |-> model_dump_json(DescriptorValue(r.workload))]

\* The children of a permission set: its managed policy attachments and its
\* inline policy.  Each consumes the arn of the permission set and nothing
\* consumes them.
PolicyKinds == {"managedPolicyAttachment", "inlinePolicy"}

PoliciesOf(permission_set_name) ==
    {r \in resources : r.kind \in PolicyKinds /\ r.permission_set = permission_set_name}

\* The engine attaches the policies of a permission set once it exists; the
\* attachments of one permission set are taken as one step.
CreatePolicies(permission_set_name) ==
    /\ PoliciesOf(permission_set_name) # {}
    /\ \A r \in PoliciesOf(permission_set_name) : Ready(r)
    /\ created' = created \cup {r.urn : r \in PoliciesOf(permission_set_name)}
    /\ UNCHANGED <<inputs, decl, pc, resources, sleeping, published, previous, run, aux>>

\* The engine creates a resource other than a Sleep through its provider.
Create(r) ==
    /\ r.kind # "sleep"
    /\ r.kind \notin PolicyKinds
    /\ Ready(r)
    /\ created' = created \cup {r.urn}
    /\ published' = IF r.kind = "descriptor" THEN published \cup {Publish(r)}
                    ELSE published
    /\ UNCHANGED <<inputs, decl, pc, resources, sleeping, previous, run, aux>>

\* SleepProvider.create is entered: the propagation delay starts.
StartSleep(r) ==
    /\ r.kind = "sleep"
    /\ Ready(r)
    /\ sleeping' = sleeping \cup {r.urn}
    /\ UNCHANGED <<inputs, decl, pc, resources, created, published, previous, run, aux>>

\* time.sleep returns and create returns its CreateResult: the delay is over.
FinishSleep(r) ==
    /\ r.urn \in sleeping
    /\ sleeping' = sleeping \ {r.urn}
    /\ created' = created \cup {r.urn}
    /\ UNCHANGED <<inputs, decl, pc, resources, published, previous, run, aux>>

Next ==
    \/ CreateCentralInfraWorkload
    \/ ConstructAwsWorkload
    \/ CreateLegacyBiotasker
    \/ RootPulumiProgram
    \/ ConstructPermissionSet
    \/ DeclareAccountAssignments
    \/ \E r \in resources : Create(r)
    \/ \E r \in resources : StartSleep(r)
    \/ \E r \in resources : FinishSleep(r)
    \/ \E r \in resources : CreatePolicies(r.permission_set)

Spec == Init /\ [][Next]_vars

\* A caller of the permissions library: any calls of create_permission_set,
\* then DefaultWorkloadPermissionAssignments.
InitPermissions == Start({"permissions", "org_admin"})

NextPermissions ==
    \/ CreatePermissionSet
    \/ ConstructDefaultAssignments
    \/ CreateOrgAdminPermissions
    \/ \E r \in resources : Create(r)
    \/ \E r \in resources : CreatePolicies(r.permission_set)

SpecPermissions == InitPermissions /\ [][NextPermissions]_vars

\* lib/program.py lines 54-98: the identity-center and billing-delegate
\* workloads and the delegations of administration to their prod accounts.
ProdOnly(workload_name) ==
    [name |-> workload_name,
     prod |-> [isNone |-> FALSE, suffixes |-> <<"prod">>, ou |-> "ou"],
     staging |-> NoTier, dev |-> NoTier]

identity_center_account_name == AccountName("identity-center", "prod")
billing_delegate_account_name == AccountName("billing-delegate", "prod")

EnableBillingServiceAccessUrn == Urn("Command", "enable-aws-service-access-for-billing")
DelegateIdentityCenterUrn ==
    Urn("DelegatedAdministrator", "delegate-admin-to-identity-center-prod")
DelegateBillingUrn == Urn("DelegatedAdministrator", "delegate-billing-admin")

\* Faulty variant of DelegatedAdministratorDependsOn: depends_on left out.
DelegatedAdministratorDependsOnNothing(account_name, command) == {}

\* Lines 66-69 and 93-96: the depends_on of a DelegatedAdministrator.
DelegatedAdministratorDependsOn(account_name, command) ==
    {SleepUrn(account_name), command}

\* Lines 60-71 and 87-98: the delegation consumes the account's id.
DelegatedAdministrator(urn, account_name, command) ==
    Resource(urn, "delegatedAdministrator",
             {AccountUrn(account_name)}
                 \cup DelegatedAdministratorDependsOn(account_name, command),
             account_name, NoWorkload)

\* Lines 54-72.
DelegateIdentityCenter ==
    /\ program = "delegation"
    /\ pc = "central_declared"
    /\ resources' = resources
          \cup AwsWorkloadResources(ProdOnly("identity-center"))
          \cup {DelegatedAdministrator(DelegateIdentityCenterUrn,
                                       identity_center_account_name,
                                       EnableServiceAccessUrn)}
    /\ pc' = "identity_center_delegated"
    /\ UNCHANGED <<inputs, decl, created, sleeping, published, previous, run, aux>>

\* Lines 73-98.
DelegateBilling ==
    /\ program = "delegation"
    /\ pc = "identity_center_delegated"
    /\ resources' = resources
          \cup AwsWorkloadResources(ProdOnly("billing-delegate"))
          \cup {Resource(EnableBillingServiceAccessUrn, "command",
                         {SleepUrn(billing_delegate_account_name)},
                         billing_delegate_account_name, NoWorkload),
                DelegatedAdministrator(DelegateBillingUrn,
                                       billing_delegate_account_name,
                                       EnableBillingServiceAccessUrn)}
    /\ pc' = "done"
    /\ UNCHANGED <<inputs, decl, created, sleeping, published, previous, run, aux>>

InitDelegation == Start({"delegation"})

NextDelegation ==
    \/ CreateCentralInfraWorkload
    \/ DelegateIdentityCenter
    \/ DelegateBilling
    \/ \E r \in resources : Create(r)
    \/ \E r \in resources : StartSleep(r)
    \/ \E r \in resources : FinishSleep(r)

SpecDelegation == InitDelegation /\ [][NextDelegation]_vars

\* A caller of lib/workload.py that constructs several AwsWorkload objects
\* with names and suffixes of its own choice.
CallerWorkloadNames == {"data", "data-lake"}
CallerProdSuffixes == {"prod", "lake-prod"}

GivenTier(suffix) == [isNone |-> FALSE, suffixes |-> <<suffix>>, ou |-> "ou"]

\* Every workload has a prod account; its dev tier is omitted or is given the
\* suffix of the prod tier.
CallerDeclarations ==
    {[name |-> n, prod |-> GivenTier(p), staging |-> NoTier, dev |-> d] :
        n \in CallerWorkloadNames, p \in CallerProdSuffixes,
        d \in {NoTier} \cup {GivenTier(x) : x \in CallerProdSuffixes}}

\* lib/workload.py lines 84-91: one AwsAccount declaration per tier and suffix.
AccountDeclarations(d) ==
    UNION {{[workload_name |-> d.name, tier |-> i,
              account_name_suffix |-> Tiers(d)[i].suffixes[j],
              account_name |-> AccountName(d.name, Tiers(d)[i].suffixes[j])] :
                j \in 1..Len(Tiers(d)[i].suffixes)} :
             i \in {k \in 1..3 : ~Tiers(d)[k].isNone /\ k < FirstFailingTier(d)}}

ConstructCallerWorkload ==
    /\ program = "names"
    /\ pc = "start"
    /\ Cardinality({a.workload_name : a \in account_args}) < MaxWorkloads
    /\ \E d \in CallerDeclarations :
          /\ \A a \in account_args : a.workload_name # d.name
          /\ account_args' = account_args \cup AccountDeclarations(d)
          /\ resources' = resources \cup AwsWorkloadResources(d)
    /\ pc' \in {"start", "done"}
    /\ UNCHANGED <<inputs, decl, created, sleeping, published, previous, run,
                   handles, rejected, cli>>

InitNames == Start({"names"})

NextNames ==
    \/ ConstructCallerWorkload
    \/ \E r \in resources : Create(r)
    \/ \E r \in resources : StartSleep(r)
    \/ \E r \in resources : FinishSleep(r)

SpecNames == InitNames /\ [][NextNames]_vars

-----------------------------------------------------------------------------
(* pulumi_deploy.py: main, and pulumi_ephemeral_deploy/utils.py *)

PROTECTED_ENVS == <<"stag", "staging", "prod", "production">>

UpperCase == <<"A", "B", "C", "D", "E", "F", "G", "H", "I", "J", "K", "L", "M",
               "N", "O", "P", "Q", "R", "S", "T", "U", "V", "W", "X", "Y", "Z">>
LowerCase == <<"a", "b", "c", "d", "e", "f", "g", "h", "i", "j", "k", "l", "m",
               "n", "o", "p", "q", "r", "s", "t", "u", "v", "w", "x", "y", "z">>

\* str.lower
lower(name) ==
    [i \in 1..Len(name) |->
        IF \E k \in 1..26 : UpperCase[k] = name[i]
        THEN LowerCase[CHOOSE k \in 1..26 : UpperCase[k] = name[i]]
        ELSE name[i]]

\* str.startswith
startswith(name, prefix) ==
    /\ Len(prefix) <= Len(name)
    /\ SubSeq(name, 1, Len(prefix)) = prefix

\* Line 30: args.stack.replace("/", "-")
replace_slash(name) == [i \in 1..Len(name) |-> IF name[i] = "/" THEN "-" ELSE name[i]]

\* Faulty variant of get_env_from_cli_input: no stack is protected.
get_env_always_dev(cli_stack_name) == "dev"

\* utils.py lines 104-114.
get_env_from_cli_input(cli_stack_name) ==
    LET name == lower(cli_stack_name)
    IN IF startswith(name, <<"t", "e", "s", "t">>) THEN "test"
       ELSE IF startswith(name, <<"p", "r", "o", "d">>) \/ name = <<"p", "n", "g", "p">>
       THEN "prod"
       ELSE IF startswith(name, <<"m", "o", "d">>) \/ name = <<"m", "n", "g", "p">>
       THEN "modl"
       ELSE "dev"

stack_name == replace_slash(args.stack)
env == get_env_from_cli_input(stack_name)

\* Lines 29-46: the arguments are parsed; a protected stack is not destroyed,
\* any other stack is selected.
SelectStack ==
    /\ program = "main"
    /\ pc = "start"
    /\ IF (\E i \in 1..Len(PROTECTED_ENVS) : PROTECTED_ENVS[i] = env) /\ args.destroy
       THEN pc' = "exited" /\ exit_code' = 1
       ELSE pc' = "stack_selected" /\ exit_code' = exit_code
    /\ UNCHANGED <<inputs, decl, resources, created, sleeping, published, previous,
                   run, handles, rejected, account_args, args, calls>>

\* Lines 49-52.
Destroy ==
    /\ program = "main"
    /\ pc = "stack_selected"
    /\ args.destroy
    /\ calls' = Append(calls, "destroy")
    /\ pc' = "destroyed"
    /\ UNCHANGED <<inputs, decl, resources, created, sleeping, published, previous,
                   run, handles, rejected, account_args, args, exit_code>>

\* Lines 54-55.
RemoveStack ==
    /\ program = "main"
    /\ pc = "destroyed"
    /\ calls' = Append(calls, "remove_stack")
    /\ exit_code' = 0
    /\ pc' = "exited"
    /\ UNCHANGED <<inputs, decl, resources, created, sleeping, published, previous,
                   run, handles, rejected, account_args, args>>

\* Lines 61-65.
Up ==
    /\ program = "main"
    /\ pc = "stack_selected"
    /\ ~args.destroy
    /\ args.apply
    /\ calls' = Append(calls, "up")
    /\ pc' = "operated"
    /\ UNCHANGED <<inputs, decl, resources, created, sleeping, published, previous,
                   run, handles, rejected, account_args, args, exit_code>>

\* Lines 66-70.
Preview ==
    /\ program = "main"
    /\ pc = "stack_selected"
    /\ ~args.destroy
    /\ ~args.apply
    /\ calls' = Append(calls, "preview")
    /\ pc' = "operated"
    /\ UNCHANGED <<inputs, decl, resources, created, sleeping, published, previous,
                   run, handles, rejected, account_args, args, exit_code>>

\* str.isnumeric and int() on the values of CustomExitCodes.
isnumeric(code) == code = "3"
int(code) == 3

\* Lines 72-82: the custom exit code, when the environment sets one; a value
\* that is not numeric raises NotImplementedError, which ends the interpreter
\* with status 1.
Exit ==
    /\ program = "main"
    /\ pc = "operated"
    /\ exit_code' = IF args.custom_exit_code = None THEN 0
                    ELSE IF isnumeric(args.custom_exit_code)
                    THEN int(args.custom_exit_code)
                    ELSE 1
    /\ pc' = "exited"
    /\ UNCHANGED <<inputs, decl, resources, created, sleeping, published, previous,
                   run, handles, rejected, account_args, args, calls>>

InitDeploy == Start({"main"})

NextDeploy ==
    \/ SelectStack
    \/ Destroy
    \/ RemoveStack
    \/ Up
    \/ Preview
    \/ Exit

SpecDeploy == InitDeploy /\ [][NextDeploy]_vars

-----------------------------------------------------------------------------

\* A caller of lib/account.py: it declares resources of its own and constructs
\* AwsAccount objects, handing some of those resources as account_depends_on.
CallerAccountNames == {"research-dev", "research-prod", "audit-prod"}
CallerResourceNames == {"scp-attachment", "budget"}

DependencyUrn(name) == Urn("Dependency", name)

CallerResources ==
    {Resource(DependencyUrn(n), "dependency", {}, None, NoWorkload) :
        n \in CallerResourceNames}

\* The values of account_depends_on: None, the empty list, or some of the
\* caller's resources.
DependsOnArgs ==
    {NoDependsOn}
    \cup {[isNone |-> FALSE, urns |-> {DependencyUrn(n) : n \in ns}] :
            ns \in SUBSET CallerResourceNames}

ConstructAwsAccount ==
    /\ program = "account"
    /\ pc = "start"
    /\ Cardinality(account_args) < MaxAccounts
    /\ \E account_name \in CallerAccountNames, account_depends_on \in DependsOnArgs :
          /\ \A a \in account_args : a.account_name # account_name
          /\ account_args' = account_args \cup
                {[account_name |-> account_name,
                  account_depends_on |-> account_depends_on]}
          /\ resources' = resources \cup CallerResources
                              \cup AwsAccount(account_name, account_depends_on)
    /\ pc' \in {"start", "done"}
    /\ UNCHANGED <<inputs, decl, created, sleeping, published, previous, run,
                   handles, rejected, cli>>

InitAccount == Start({"account"})

NextAccount ==
    \/ ConstructAwsAccount
    \/ \E r \in resources : Create(r)
    \/ \E r \in resources : StartSleep(r)
    \/ \E r \in resources : FinishSleep(r)

SpecAccount == InitAccount /\ [][NextAccount]_vars

\* The provider rejects the creation of an account (for instance its email
\* is already in use): the resource fails and nothing consumes its outputs.
RejectAccount(r) ==
    /\ r.kind = "account"
    /\ Ready(r)
    /\ rejected' = rejected \cup {r.urn}
    /\ UNCHANGED <<inputs, decl, pc, resources, created, sleeping, published,
                   previous, run, handles, account_args, cli>>

\* The workload program on an organization where account creations may be
\* rejected.
InitReject == Start({"workload"})

NextReject ==
    \/ CreateCentralInfraWorkload
    \/ ConstructAwsWorkload
    \/ \E r \in resources : Create(r)
    \/ \E r \in resources : StartSleep(r)
    \/ \E r \in resources : FinishSleep(r)
    \/ \E r \in resources : RejectAccount(r)

SpecReject == InitReject /\ [][NextReject]_vars

\* A deployment in which no provider operation fails: the engine keeps
\* working as long as a declared resource can be acted on.
\* The arguments of AwsWorkload are fixed from the start: every tier is
\* omitted or comes with its organizational unit and at least one suffix.
LiveDeclarations ==
    {d \in Declarations :
        \A i \in 1..3 :
            Tiers(d)[i].isNone \/ (Tiers(d)[i].ou # None /\ Len(Tiers(d)[i].suffixes) >= 1)}

InitLive == StartDeclared({"workload", "root"}, LiveDeclarations)

NextLive ==
    \/ CreateCentralInfraWorkload
    \/ ConstructAwsWorkload
    \/ RootPulumiProgram
    \/ \E r \in resources : Create(r)
    \/ \E r \in resources : StartSleep(r)
    \/ \E r \in resources : FinishSleep(r)
    \/ \E r \in resources : CreatePolicies(r.permission_set)

SpecLive == InitLive /\ [][NextLive]_vars /\ WF_vars(NextLive)

\* The program is evaluated again on the stack the previous evaluation left:
\* the engine walks the same resources, the accounts keep their identifiers
\* and every descriptor is built anew.
Rerun ==
    /\ pc \in {"done", "failed"}
    /\ run < MaxRuns
    /\ \A r \in resources : r.urn \in created
    /\ run' = run + 1
    /\ previous' = published
    /\ published' = {}
    /\ created' = {}
    /\ resources' = {}
    /\ pc' = "start"
    /\ handles' = [c \in ContainerNames |-> 0]
    /\ UNCHANGED <<inputs, decl, sleeping, rejected, account_args, cli>>

NextRerun == Next \/ Rerun

SpecRerun == Init /\ [][NextRerun]_vars

-----------------------------------------------------------------------------
(* Vocabulary of the properties *)

ResourcesOfKind(kinds) == {r \in resources : r.kind \in kinds}

IsCreated(urn) == urn \in created

\* The propagation delay of an account has started / has elapsed.
DelayStarted(account_name) ==
    SleepUrn(account_name) \in sleeping \cup created
DelayElapsed(account_name) == SleepUrn(account_name) \in created

\* The accounts of the AwsWorkload under evaluation.
WorkloadAccounts == SeqToSet(all_accounts(decl))

\* The accounts a descriptor parameter lists.
ListedAccounts(r) ==
    SeqToSet(r.workload.prod \o r.workload.staging \o r.workload.dev)

\* The entry published under the descriptor path of a workload.
PublishedFor(workload_name) ==
    {e \in published : e.name = ParameterName(workload_name)}

-----------------------------------------------------------------------------
(* C1 *)

\* C1: for every account AwsWorkload creates, the Sleep starts only once the
\* account has been created, and the account-scoped provider and the
\* InfraDeploy and InfraPreview roles are created only once the Sleep has
\* completed.
C1_CreateThenWaitThenDependents ==
    \A a \in WorkloadAccounts :
        /\ DelayStarted(a) => IsCreated(AccountUrn(a))
        /\ \A r \in ResourcesOfKind({"provider", "deployRole", "previewRole"}) :
              (r.account = a /\ IsCreated(r.urn)) => DelayElapsed(a)

C1_Witness ==
    \E a \in WorkloadAccounts :
        /\ IsCreated(ProviderUrn(a))
        /\ IsCreated(DeployRoleUrn(a))
        /\ IsCreated(PreviewRoleUrn(a))

-----------------------------------------------------------------------------
(* C2 *)

\* C2: a workload descriptor parameter (of AwsWorkload, of
\* create_central_infra_workload, of create_legacy_biotasker) is written only
\* once the propagation delay of every account it lists has elapsed.
C2_PublishAfterEveryDelay ==
    \A r \in ResourcesOfKind({"descriptor"}) :
        IsCreated(r.urn) => \A a \in ListedAccounts(r) : DelayElapsed(a)

-----------------------------------------------------------------------------
(* C3 *)

CentralResourceUrns == {r.urn : r \in CentralResources(kmsConfig)}

BootstrapperComplete == CentralResourceUrns \subseteq created

IsWorkloadAccountOrRole(r) ==
    /\ r.account # central_infra_account_name
    /\ r.kind \in {"account", "deployRole", "previewRole"}

-----------------------------------------------------------------------------
(* C5 *)

PublishedIds(e) ==
    {e.workload.prod_accounts[i].id : i \in 1..Len(e.workload.prod_accounts)}
    \cup {e.workload.staging_accounts[i].id : i \in 1..Len(e.workload.staging_accounts)}
    \cup {e.workload.dev_accounts[i].id : i \in 1..Len(e.workload.dev_accounts)}

\* C5: a descriptor is built and written only once the identifier of every
\* account in its three tiers has resolved, and no written descriptor holds
\* an unresolved identifier.
C5_PublishAfterIdsResolve ==
    /\ \A r \in ResourcesOfKind({"descriptor"}) :
          IsCreated(r.urn) => \A a \in ListedAccounts(r) : IsCreated(AccountUrn(a))
    /\ \A e \in published : Unknown \notin PublishedIds(e)

C5_Witness ==
    \E e \in PublishedFor(decl.name) :
        /\ Len(e.workload.prod_accounts) = 1
        /\ Len(e.workload.staging_accounts) = 1
        /\ Len(e.workload.dev_accounts) = 1

-----------------------------------------------------------------------------
(* C6 *)

\* The number of accounts a tier declares.
DeclaredCount(t) == IF t.isNone THEN 0 ELSE Len(t.suffixes)

TierListMatches(list, t) ==
    /\ Len(list) = DeclaredCount(t)
    /\ \A j \in 1..Len(list) :
          /\ j <= Len(t.suffixes)
          /\ list[j].name = decl.name \o "-" \o t.suffixes[j]
          /\ list[j].id = AccountId(list[j].name)
          /\ IsCreated(AccountUrn(list[j].name))

\* C6: in the published descriptor of a workload, each tier's list has one
\* entry per declared suffix, each entry is named <workload name>-<suffix>, and
\* its id is the identifier of the account of that name.
C6_DescriptorListsMatchDeclaration ==
    \A e \in PublishedFor(decl.name) :
        /\ e.workload.name = decl.name
        /\ TierListMatches(e.workload.prod_accounts, decl.prod)
        /\ TierListMatches(e.workload.staging_accounts, decl.staging)
        /\ TierListMatches(e.workload.dev_accounts, decl.dev)

C6_Witness ==
    \E e \in PublishedFor(decl.name) :
        /\ Len(e.workload.prod_accounts) = 1
        /\ Len(e.workload.staging_accounts) = 0
        /\ Len(e.workload.dev_accounts) = 1
        /\ e.workload.dev_accounts[1].name = "billing-delegate-dev"

-----------------------------------------------------------------------------
(* C7 *)

IsEmptyTier(t) == t.isNone \/ Len(t.suffixes) = 0

\* The account resources registered under a name the tier could produce.
TierAccountResources(i) ==
    {r \in ResourcesOfKind({"account"}) :
        \E x \in TierSuffixes[i] \cup {SecondSuffixes[i]} :
            r.account = decl.name \o "-" \o x}

PublishedTier(e, i) ==
    IF i = 1 THEN e.workload.prod_accounts
    ELSE IF i = 2 THEN e.workload.staging_accounts
    ELSE e.workload.dev_accounts

\* C7: a tier declared without suffixes gets no account, and its list in the
\* published descriptor is empty.
C7_EmptyTierHasNoAccounts ==
    \A i \in 1..3 :
        (decl # NoDecl /\ IsEmptyTier(Tiers(decl)[i])) =>
            /\ TierAccountResources(i) = {}
            /\ \A e \in PublishedFor(decl.name) : PublishedTier(e, i) = <<>>

C7_Witness ==
    /\ decl.staging.isNone
    /\ ~decl.prod.isNone
    /\ ~decl.dev.isNone
    /\ PublishedFor(decl.name) # {}

-----------------------------------------------------------------------------
(* C8 *)

IsBillingDelegateProdOnly ==
    /\ decl.name = "billing-delegate"
    /\ decl.prod.suffixes = <<"prod">>
    /\ decl.prod.ou # None
    /\ decl.staging.isNone
    /\ decl.dev.isNone

\* C8 as stated: the descriptor is exactly the document of the scenario, which
\* has a name, an id and three lists and nothing else.
C8_Original ==
    IsBillingDelegateProdOnly =>
        \A e \in PublishedFor("billing-delegate") :
            e.value = "{\"name\":\"billing-delegate\",\"prod_accounts\":[{\"id\":\""
                      \o AccountId("billing-delegate-prod")
                      \o "\",\"name\":\"billing-delegate-prod\"}],"
                      \o "\"staging_accounts\":[],\"dev_accounts\":[]}"

\* C8 as amended: the descriptor is that document with the field version,
\* "0.0.1", leading the workload and its one account entry.
C8_BillingDelegateDescriptor ==
    IsBillingDelegateProdOnly =>
        \A e \in PublishedFor("billing-delegate") :
            e.value = "{\"version\":\"0.0.1\",\"name\":\"billing-delegate\","
                      \o "\"prod_accounts\":[{\"version\":\"0.0.1\",\"id\":\""
                      \o AccountId("billing-delegate-prod")
                      \o "\",\"name\":\"billing-delegate-prod\"}],"
                      \o "\"staging_accounts\":[],\"dev_accounts\":[]}"

C8_Witness ==
    /\ IsBillingDelegateProdOnly
    /\ PublishedFor("billing-delegate") # {}

-----------------------------------------------------------------------------
(* C9 *)

-----------------------------------------------------------------------------
(* C4 *)

Assignments == ResourcesOfKind({"assignment"})

\* The accounts this deployment itself requests.
RequestedAccounts == {r.account : r \in ResourcesOfKind({"account"})}

\* C4: no SSO account-assignment binding that targets an account of the
\* deployment is created before that account is created and its propagation
\* delay has elapsed.
C4_AssignmentAfterPropagation ==
    \A r \in Assignments :
        (IsCreated(r.urn) /\ r.account \in RequestedAccounts) =>
            /\ IsCreated(AccountUrn(r.account))
            /\ DelayElapsed(r.account)

-----------------------------------------------------------------------------
(* C10 *)

BindingsOf(permission_set_name) ==
    {r \in Assignments : r.permission_set = permission_set_name}

DistinctUsernames == {users[i].username : i \in 1..Len(users)}

ConflictingDuplicate ==
    \E i, j \in 1..Len(users) :
        users[i].username = users[j].username /\ users[i] # users[j]

AllUsersExist == \A u \in DistinctUsernames : u \in identityStore

\* The declarations of the program that have returned or raised.
AdminDeclarationOver == program = "sso" /\ pc \in {"admin_assigned", "done", "failed"}
ViewDeclarationOver == program = "sso" /\ pc = "done"

OneBindingPerUsername(permission_set_name) ==
    /\ \A u \in DistinctUsernames :
          Cardinality({r \in BindingsOf(permission_set_name) : r.user = u}) = 1
    /\ Cardinality(BindingsOf(permission_set_name)) = Cardinality(DistinctUsernames)

\* C10 as stated: for any user list passed to one account-assignment
\* declaration, exactly one binding is created per distinct username.
C10_Original ==
    /\ AdminDeclarationOver => OneBindingPerUsername("ManagementAccountAdminAccess")
    /\ ViewDeclarationOver => OneBindingPerUsername("ManagementAccountViewAccess")

\* C10: a declaration whose user list has no two entries with one username and
\* different attributes, and whose usernames all exist in the identity store,
\* completes with exactly one binding per distinct username; any declaration
\* leaves at most one binding per distinct username, so no two bindings share a
\* (user, account, permission set) triple.
C10_OneBindingPerDistinctUsername ==
    /\ (AdminDeclarationOver /\ ~ConflictingDuplicate /\ AllUsersExist) =>
          /\ pc # "failed"
          /\ OneBindingPerUsername("ManagementAccountAdminAccess")
    /\ ViewDeclarationOver => OneBindingPerUsername("ManagementAccountViewAccess")
    /\ \A p \in {"ManagementAccountAdminAccess", "ManagementAccountViewAccess"} :
          /\ \A u \in DistinctUsernames :
                Cardinality({r \in BindingsOf(p) : r.user = u}) <= 1
          /\ \A r1, r2 \in BindingsOf(p) :
                (r1.user = r2.user /\ r1.account = r2.account) => r1 = r2

\* The list [a.b, a.b, c.d] has been declared and its 2 bindings are created.
C10_Witness ==
    /\ AdminDeclarationOver
    /\ UsernamesOf(users) = <<"a.b", "a.b", "c.d">>
    /\ Cardinality(BindingsOf("ManagementAccountAdminAccess")) = 2
    /\ \A r \in BindingsOf("ManagementAccountAdminAccess") : IsCreated(r.urn)

-----------------------------------------------------------------------------
(* C11 *)

\* The accounts of the protected tiers and of the dev tier of the workload
\* whose default assignments are declared.
ProtectedAccounts == SeqToSet(TierAccounts(decl, 1) \o TierAccounts(decl, 2))
UnprotectedAccounts == SeqToSet(TierAccounts(decl, 3))

BoundTo(account_name, permission_set_name, username) ==
    \E r \in Assignments :
        /\ r.account = account_name
        /\ r.permission_set = permission_set_name
        /\ r.user = username

\* C11: once DefaultWorkloadPermissionAssignments has been constructed, every
\* prod and staging account is bound, for every user, to the view-only
\* permission set and every dev account to the low-risk admin permission set;
\* at any time a binding of a prod or staging account is to the view-only
\* permission set and a binding of a dev account to the low-risk admin one.
C11_TieredDefaultAssignments ==
    program = "permissions" =>
        /\ pc = "done" =>
              /\ \A a \in ProtectedAccounts : \A u \in DistinctUsernames :
                    BoundTo(a, VIEW_ONLY_PERM_SET_CONTAINER.name, u)
              /\ \A a \in UnprotectedAccounts : \A u \in DistinctUsernames :
                    BoundTo(a, LOW_RISK_ADMIN_PERM_SET_CONTAINER.name, u)
        /\ \A r \in Assignments :
              /\ r.account \in ProtectedAccounts =>
                    r.permission_set = VIEW_ONLY_PERM_SET_CONTAINER.name
              /\ r.account \in UnprotectedAccounts =>
                    r.permission_set = LOW_RISK_ADMIN_PERM_SET_CONTAINER.name
              /\ r.account \in ProtectedAccounts \cup UnprotectedAccounts

\* A workload with an account in each tier and two users: every binding exists.
C11_Witness ==
    /\ program = "permissions"
    /\ pc = "done"
    /\ Cardinality(ProtectedAccounts) = 2
    /\ Cardinality(UnprotectedAccounts) = 1
    /\ Cardinality(DistinctUsernames) = 2
    /\ Cardinality(Assignments) = 6
    /\ \A r \in Assignments : IsCreated(r.urn)

-----------------------------------------------------------------------------
(* C12 *)

InlineStatements(r) == UNION {p.statements : p \in r.policies}

DeleteActions == {"s3:DeleteObject", "s3:DeleteObjectVersion"}

\* The lock files under the principal account's prefix of the state bucket.
LockFilePattern ==
    "arn:aws:s3:::" \o BucketName \o "/${aws:PrincipalAccount}/*/.pulumi/locks/*.json"

KmsStatements(r) ==
    {st \in InlineStatements(r) :
        \E a \in st.actions : a \notin {"s3:PutObject"} \cup DeleteActions}

\* C12: the policies of the central preview role allow s3:DeleteObject and
\* s3:DeleteObjectVersion on the lock-file pattern only, the role carries no
\* administrator policy, and its one statement about the key allows exactly
\* kms:Encrypt and kms:Decrypt on exactly the configured key arn.
C12_PreviewRoleLeastPrivilege ==
    \A r \in ResourcesOfKind({"centralPreviewRole"}) :
        /\ \A st \in InlineStatements(r) :
              st.actions \cap DeleteActions # {} => st.resources \subseteq {LockFilePattern}
        /\ AdministratorAccess \notin r.managed_policy_arns
        /\ \E st \in InlineStatements(r) :
              /\ KmsStatements(r) = {st}
              /\ st.effect = "Allow"
              /\ st.actions = {"kms:Encrypt", "kms:Decrypt"}
              /\ st.resources = {kmsConfig}

\* The preview role of create_central_infra_workload exists with its lock
\* statement.
C12_Witness ==
    /\ program \in {"workload", "biotasker"}
    /\ \E r \in ResourcesOfKind({"centralPreviewRole"}) :
          /\ IsCreated(r.urn)
          /\ \E st \in InlineStatements(r) : st.actions = DeleteActions

-----------------------------------------------------------------------------
(* C13 *)

RolesIn(account_name) ==
    {r \in resources : r.account = account_name /\ r.trust # None}

\* C13: every account AwsWorkload creates holds exactly two roles: one that
\* trusts the central deploy role and carries AdministratorAccess, one that
\* trusts the central preview role and carries ReadOnlyAccess and the
\* encrypt/decrypt policy on the configured key; no role with
\* AdministratorAccess trusts the central preview role.
C13_TwoRolesPerAccount ==
    program = "workload" =>
        \A a \in {x.account : x \in ResourcesOfKind({"account"})} \cap WorkloadAccounts :
            /\ Cardinality(RolesIn(a)) = 2
            /\ \E d \in RolesIn(a) :
                  /\ d.trust = CentralDeployRoleUrn
                  /\ d.managed_policy_arns = {AdministratorAccess}
                  /\ d.policies = {}
            /\ \E v \in RolesIn(a) :
                  /\ v.trust = CentralPreviewRoleUrn
                  /\ v.managed_policy_arns = {ReadOnlyAccess}
                  /\ InlineStatements(v) =
                        {Statement(None, {"kms:Encrypt", "kms:Decrypt"}, {kmsConfig})}
            /\ \A r \in RolesIn(a) :
                  AdministratorAccess \in r.managed_policy_arns =>
                      r.trust # CentralPreviewRoleUrn

\* Three accounts, each with both roles created.
C13_Witness ==
    /\ program = "workload"
    /\ Cardinality(WorkloadAccounts) = 3
    /\ \A a \in WorkloadAccounts : \A r \in RolesIn(a) : IsCreated(r.urn)
    /\ \A a \in WorkloadAccounts : Cardinality(RolesIn(a)) = 2

-----------------------------------------------------------------------------
(* C14 *)

\* C14: an evaluation that fails on the configuration (proj:kms_key_id missing,
\* a suffix list of the wrong length, suffixes without an organizational unit)
\* fails before any resource has been declared, and creates none.
C14_FailsBeforeAnyResource ==
    (program = "workload" /\ pc = "failed") => (resources = {} /\ created = {})

-----------------------------------------------------------------------------
(* C15 *)

\* C15: a tier declared with two or more suffixes makes the constructor of
\* AwsWorkload fail and no account of that tier is registered; every tier of
\* a workload holds at most one account.
C15_OneAccountPerTier ==
    (program = "workload" /\ decl # NoDecl) =>
        \A i \in 1..3 :
            /\ Len(Tiers(decl)[i].suffixes) >= 2 =>
                  (pc = "failed" /\ TierAccountResources(i) = {})
            /\ Cardinality(TierAccountResources(i)) <= 1
            /\ Len(TierAccounts(decl, i)) <= 1

\* The staging tier has two suffixes: the prod account before it exists, no
\* staging account does.
C15_Witness ==
    /\ program = "workload"
    /\ decl.staging.suffixes = <<"staging", "staging-b">>
    /\ pc = "failed"
    /\ IsCreated(AccountUrn("billing-delegate-prod"))
    /\ TierAccountResources(2) = {}

-----------------------------------------------------------------------------
(* C16 *)

MissingUsernames == DistinctUsernames \ identityStore

\* C16: when a username of the user list does not exist in the identity store,
\* the declaration fails and stays failed, and no binding is created for that
\* username, under its own name or another principal's.
C16_LookupFailureIsFatal ==
    (AdminDeclarationOver /\ MissingUsernames # {}) =>
        /\ pc = "failed"
        /\ \A r \in Assignments : r.user \in identityStore
        /\ Cardinality(BindingsOf("ManagementAccountAdminAccess"))
              < Cardinality(DistinctUsernames)
        /\ BindingsOf("ManagementAccountViewAccess") = {}

\* a.b exists and is bound, c.d does not exist: the evaluation has failed.
C16_Witness ==
    /\ AdminDeclarationOver
    /\ pc = "failed"
    /\ UsernamesOf(users) = <<"a.b", "c.d">>
    /\ ~ConflictingDuplicate
    /\ "c.d" \notin identityStore
    /\ \E r \in Assignments : r.user = "a.b" /\ IsCreated(r.urn)

-----------------------------------------------------------------------------
(* C17 *)

RejectedAccounts == {r \in resources : r.kind = "account" /\ r.urn \in rejected}

\* The descriptors, declared or published, that list the account.
ListsAccount(data, account_name) ==
    account_name \in SeqToSet(data.prod) \cup SeqToSet(data.staging) \cup SeqToSet(data.dev)

\* C17: an account whose creation the provider rejected is never created
\* afterwards; its propagation wait never starts, its provider and its two
\* roles are never created, and no descriptor listing it is published.
C17_RejectedAccountIsFatal ==
    \A r \in RejectedAccounts :
        /\ ~IsCreated(r.urn)
        /\ SleepUrn(r.account) \notin sleeping \cup created
        /\ ~IsCreated(ProviderUrn(r.account))
        /\ ~IsCreated(DeployRoleUrn(r.account))
        /\ ~IsCreated(PreviewRoleUrn(r.account))
        /\ \A p \in resources :
              (p.kind = "descriptor" /\ ListsAccount(p.workload, r.account))
                  => ~IsCreated(p.urn)
        /\ \A e \in published :
              \A i \in 1..3 : \A j \in 1..Len(PublishedTier(e, i)) :
                  PublishedTier(e, i)[j].id # AccountId(r.account)

\* A workload account was rejected while the rest of the program was
\* declared and everything that could be created has been.
C17_Witness ==
    /\ pc = "done"
    /\ \E r \in RejectedAccounts : r.account # central_infra_account_name
    /\ \A r \in resources : ~Ready(r)
    /\ sleeping = {}

-----------------------------------------------------------------------------
(* C18 *)

\* C18: a container never constructs more than one permission set: a second
\* create_permission_set returns the handle of the first call.
C18_CreatePermissionSetIdempotent ==
    \A c \in ContainerNames : handles[c] <= 1

-----------------------------------------------------------------------------
(* C19 *)

UniqueById(accounts) ==
    \A j, k \in 1..Len(accounts) : accounts[j].id = accounts[k].id => j = k

\* C19: in every published descriptor, no tier list holds two entries with
\* the same account id.
C19_TierEntriesUniqueById ==
    \A e \in published : \A i \in 1..3 : UniqueById(PublishedTier(e, i))

\* A descriptor of a workload with an account in every tier is published.
C19_Witness ==
    \E e \in published :
        /\ e.workload.name # central_infra_workload_name
        /\ \A i \in 1..3 : Len(PublishedTier(e, i)) = 1

-----------------------------------------------------------------------------
(* C20 *)

DeclaredAccounts == {r.account : r \in ResourcesOfKind({"account"})}

\* The resources of one account: the account, its wait, its provider, its
\* roles and the SSO assignments that target it.
AccountResources(account_name) == {r \in resources : r.account = account_name}

Terminal(account_name) ==
    \A r \in AccountResources(account_name) : IsCreated(r.urn)

-----------------------------------------------------------------------------
(* C21 *)

\* C21: the creation of an account does not start before every resource of
\* its account_depends_on list has been created.
C21_AccountWaitsForDependsOn ==
    \A a \in account_args :
        IsCreated(AccountUrn(a.account_name)) =>
            a.account_depends_on.urns \subseteq created

-----------------------------------------------------------------------------
(* C22 *)

\* C22: every deploy role of a workload account trusts the central deploy
\* role and nothing else, every preview role the central preview role and
\* nothing else; no workload role trusts an account root.
C22_WorkloadRolesTrustCentralRoles ==
    /\ \A r \in ResourcesOfKind({"deployRole"}) : r.trust = CentralDeployRoleUrn
    /\ \A r \in ResourcesOfKind({"previewRole"}) : r.trust = CentralPreviewRoleUrn

-----------------------------------------------------------------------------
(* C23 *)

\* C23: SSO administration is delegated only after the identity-center
\* account's delay has elapsed and enable-aws-service-access has run, that
\* command runs only after the central-infra account's delay has elapsed, and
\* billing administration is delegated only after the billing-delegate
\* account's delay has elapsed and its own enable-service-access command has
\* run.
C23_DelegationAfterPropagation ==
    /\ IsCreated(DelegateIdentityCenterUrn) =>
          /\ DelayElapsed(identity_center_account_name)
          /\ IsCreated(EnableServiceAccessUrn)
    /\ IsCreated(EnableServiceAccessUrn) => DelayElapsed(central_infra_account_name)
    /\ IsCreated(DelegateBillingUrn) =>
          /\ DelayElapsed(billing_delegate_account_name)
          /\ IsCreated(EnableBillingServiceAccessUrn)

\* Both delegations exist.
C23_Witness ==
    /\ IsCreated(DelegateIdentityCenterUrn)
    /\ IsCreated(DelegateBillingUrn)

-----------------------------------------------------------------------------
(* C24 *)

\* The entries of a user list whose username did not occur before them.
FirstOccurrences(user_list) ==
    SelectSeq([i \in 1..Len(user_list) |->
                 [entry |-> user_list[i],
                  first |-> \A j \in 1..(i - 1) :
                               user_list[j].username # user_list[i].username]],
              LAMBDA x : x.first)

LibDeclarationOver == AdminDeclarationOver /\ ssoClass = "lib"

\* C24: a user list with one username under two different attribute sets makes
\* _create_unique_userinfo_list raise, and the declaration then fails with no
\* account assignment at all; a list without such a pair is reduced, without
\* error, to the first occurrence of each username.
C24_ConflictingDuplicateRaises ==
    /\ create_unique_userinfo_list(users).raised = ConflictingDuplicate
    /\ ~ConflictingDuplicate =>
          create_unique_userinfo_list(users).list
              = [i \in 1..Len(FirstOccurrences(users)) |-> FirstOccurrences(users)[i].entry]
    /\ (LibDeclarationOver /\ ConflictingDuplicate) =>
          /\ pc = "failed"
          /\ Assignments = {}

\* The declaration over a list with a conflicting pair has failed.
C24_Witness ==
    /\ LibDeclarationOver
    /\ ConflictingDuplicate
    /\ Len(users) = 3
    /\ pc = "failed"

-----------------------------------------------------------------------------
(* C25 *)

CallOver == pc \in {"done", "failed"}

ViewOnly == VIEW_ONLY_PERM_SET_CONTAINER
LowRisk == LOW_RISK_ADMIN_PERM_SET_CONTAINER
ManualSecrets == MANUAL_SECRETS_ENTRY_PERM_SET_CONTAINER

\* C25: no account assignment is bound to a permission set whose container
\* was never asked to create it; DefaultWorkloadPermissionAssignments fails
\* when the container of a tier that has accounts was not created, and
\* create_org_admin_permissions fails without any assignment when one of its
\* two containers was not created.
C25_HandleReadOnlyAfterCreate ==
    /\ \A r \in Assignments : handles[r.permission_set] > 0
    /\ (program = "permissions" /\ CallOver) =>
          /\ (ProtectedAccounts # {} /\ ~HasPermissionSet(ViewOnly)) =>
                (pc = "failed" /\ Assignments = {})
          /\ (UnprotectedAccounts # {} /\ ~HasPermissionSet(LowRisk)) =>
                (pc = "failed" /\ BindingsOf(LowRisk.name) = {})
    /\ (/\ program = "org_admin"
        /\ CallOver
        /\ ~HasPermissionSet(ViewOnly) \/ ~HasPermissionSet(ManualSecrets)) =>
          (pc = "failed" /\ Assignments = {})

\* The view-only permission set exists and the low-risk one does not: the
\* prod account of the workload is bound, its dev account is not, and the
\* construction has failed.
C25_Witness ==
    /\ program = "permissions"
    /\ pc = "failed"
    /\ HasPermissionSet(ViewOnly)
    /\ ~HasPermissionSet(LowRisk)
    /\ ProtectedAccounts # {}
    /\ UnprotectedAccounts # {}
    /\ BindingsOf(ViewOnly.name) # {}
    /\ BindingsOf(LowRisk.name) = {}

-----------------------------------------------------------------------------
(* C26 *)

\* The protected environment names, as sequences of characters.
ProtectedPrefixes ==
    { <<"s", "t", "a", "g">>, <<"s", "t", "a", "g", "i", "n", "g">>,
      <<"p", "r", "o", "d">>, <<"p", "r", "o", "d", "u", "c", "t", "i", "o", "n">> }

BeginsWithProtectedEnv == \E prefix \in ProtectedPrefixes : startswith(args.stack, prefix)

Called(operation) == \E i \in 1..Len(calls) : calls[i] = operation

\* C26: for a stack name that begins with stag, staging, prod or production,
\* main() with --destroy never calls destroy or remove_stack and exits with
\* status 1.
C26_ProtectedStackNotDestroyed ==
    (program = "main" /\ args.destroy /\ BeginsWithProtectedEnv) =>
        /\ ~Called("destroy")
        /\ ~Called("remove_stack")
        /\ pc = "exited" => exit_code = 1

-----------------------------------------------------------------------------
(* C27 *)

MainExited == program = "main" /\ pc = "exited"

\* The stacks main() refuses to destroy: the name, in lower case, begins with
\* prod or is pngp.
RefusedStack ==
    \/ startswith(lower(args.stack), <<"p", "r", "o", "d">>)
    \/ lower(args.stack) = <<"p", "n", "g", "p">>

\* C27 as stated: with --destroy main() calls destroy, removes the stack and
\* exits with status 0; without it, it calls up when --apply is set and
\* preview otherwise.
C27_Original ==
    MainExited =>
        IF args.destroy THEN calls = <<"destroy", "remove_stack">> /\ exit_code = 0
        ELSE IF args.apply THEN calls = <<"up">>
        ELSE calls = <<"preview">>

\* C27: one invocation of main() performs at most one engine operation.  With
\* --destroy on a stack it refuses to destroy it calls nothing and exits with
\* status 1; with --destroy on any other stack it calls destroy, then
\* remove_stack, and exits with status 0, also when --apply is given; without
\* --destroy it calls up when --apply is set and preview otherwise.  It never
\* calls up or preview together with destroy, and never both up and preview.
C27_OneEngineOperation ==
    /\ MainExited =>
          IF args.destroy /\ RefusedStack THEN calls = <<>> /\ exit_code = 1
          ELSE IF args.destroy
          THEN calls = <<"destroy", "remove_stack">> /\ exit_code = 0
          ELSE IF args.apply THEN calls = <<"up">>
          ELSE calls = <<"preview">>
    /\ Called("destroy") => ~Called("up") /\ ~Called("preview")
    /\ ~(Called("up") /\ Called("preview"))
    /\ Cardinality({i \in 1..Len(calls) : calls[i] \in {"destroy", "up", "preview"}}) <= 1

\* --destroy and --apply together on a stack that may be destroyed: destroy
\* and remove_stack were called and main() exited with status 0.
C27_Witness ==
    /\ MainExited
    /\ args.destroy
    /\ args.apply
    /\ calls = <<"destroy", "remove_stack">>
    /\ exit_code = 0

-----------------------------------------------------------------------------
(* C28 *)

\* C28: the AwsAccount declarations of one evaluation have pairwise distinct
\* account names (and so distinct email addresses and resource names).
C28_AccountNamesDistinct ==
    \A a, b \in account_args :
        (program = "names" /\ a.account_name = b.account_name) => a = b

====
